---- MODULE Spec2Model ----
(***************************************************************************)
(* Model of the sysinfo binary (src/main.rs): argument parsing, the banner *)
(* and footer printed by main, and the four cfg-selected variants of       *)
(* get_system_info.                                                        *)
(*                                                                         *)
(* Standard output is a sequence of lines.  A line is a record             *)
(*   by   : the function whose println! produced it,                       *)
(*   src  : the query (or cfg value) the printed value comes from,         *)
(*          "none" for constant text,                                      *)
(*   text : the printed characters as a sequence of tokens; format-string  *)
(*          literals are one token each, values read from the system are   *)
(*          one token per character.                                       *)
(*                                                                         *)
(* stdout_ok tells whether standard output accepts writes during the run;  *)
(* println! panics on the first write that fails.  exit_code is empty      *)
(* while the process runs and holds the exit status afterwards.            *)
(***************************************************************************)
EXTENDS Integers, Sequences, FiniteSets, TLC

VARIABLES target_os, arch, argv, env, stdout_ok, pc, args, out, queries, calls,
          exit_code

vars ==
    <<target_os, arch, argv, env, stdout_ok, pc, args, out, queries, calls, exit_code>>

(* ------------------------------ bounds -------------------------------- *)

\* longest /proc/meminfo content (in lines) that is explored
MaxMemLines == 11
\* longest /proc/cpuinfo content (in lines) that is explored
MaxCpuLines == 2
\* largest processor count GetSystemInfo reports
MaxProcs == 2

(* --------------------------- string helpers --------------------------- *)

Whitespace == {" ", "\n", "\t"}

RECURSIVE TrimStart(_)
TrimStart(s) ==
    IF s # <<>> /\ Head(s) \in Whitespace THEN TrimStart(Tail(s)) ELSE s

RECURSIVE TrimEnd(_)
TrimEnd(s) ==
    IF s # <<>> /\ s[Len(s)] \in Whitespace
    THEN TrimEnd(SubSeq(s, 1, Len(s) - 1))
    ELSE s

\* str::trim
Trim(s) == TrimEnd(TrimStart(s))

\* Iterator::take
Take(s, n) == SubSeq(s, 1, IF Len(s) < n THEN Len(s) ELSE n)

\* str::starts_with("processor") on a line of /proc/cpuinfo
StartsWithProcessor(line) == line # <<>> /\ Head(line) = "processor"

\* contents.lines().filter(|line| line.starts_with("processor")).count()
RECURSIVE ProcessorCount(_)
ProcessorCount(lines) ==
    IF lines = <<>> THEN 0
    ELSE (IF StartsWithProcessor(Head(lines)) THEN 1 ELSE 0)
         + ProcessorCount(Tail(lines))

\* println! issued by function f; the value printed comes from query q
Line(f, q, t) == [by |-> f, src |-> q, text |-> t]

GSI == "get_system_info"

\* one "  \"key\": value" line of the hand-assembled object
KeyLine(q, key, value, comma) ==
    Line(GSI, q, <<"  \"", key, "\": ">> \o value \o (IF comma THEN <<",">> ELSE <<>>))

Quoted(chars) == <<"\"">> \o chars \o <<"\"">>

Num(n) == <<ToString(n)>>

(* -------------------------- argument parsing -------------------------- *)

\* the value names clap derives for OutputFormat
OutputFormatValuesNoJson == {"text"}
OutputFormatValues == {"text", "json"}

OutputFormatOf(s) == IF s = "json" THEN "Json" ELSE "Text"

\* Args::parse(): --format is optional with default Text; a value outside
\* the enum is a usage error (clap prints to stderr and exits with code 2)
ArgsParse(a) ==
    IF a.format = "absent"
    THEN [ok |-> TRUE, verbose |-> a.verbose, format |-> "Text"]
    ELSE IF a.format \in OutputFormatValues
    THEN [ok |-> TRUE, verbose |-> a.verbose, format |-> OutputFormatOf(a.format)]
    ELSE [ok |-> FALSE, verbose |-> a.verbose, format |-> "Text"]

UsageErrorCode == 2

(* --------------------------- cfg selection ---------------------------- *)

CfgWindows(os) == os = "windows"
CfgLinux(os) == os = "linux"
CfgMacos(os) == os = "macos"
CfgFallbackNoMacos(os) == ~(os = "windows" \/ os = "linux")
CfgFallback(os) == ~(os = "windows" \/ os = "linux" \/ os = "macos")

Variants == {"windows", "linux", "macos", "fallback"}

Selected(v, os) ==
    CASE v = "windows" -> CfgWindows(os)
      [] v = "linux" -> CfgLinux(os)
      [] v = "macos" -> CfgMacos(os)
      [] v = "fallback" -> CfgFallback(os)

(* ------------------------- the host environment ----------------------- *)

\* what GetSystemInfo writes into the SystemInfo structure
SysInfos ==
    { [dw_number_of_processors |-> n, dw_page_size |-> 4096,
       w_processor_architecture |-> 9, dw_processor_type |-> 8664,
       w_processor_level |-> 6, w_processor_revision |-> 1,
       dw_allocation_granularity |-> 65536] : n \in 1..MaxProcs }

\* GetComputerNameW: zero on failure, else the name in buffer[..size]
ComputerNames ==
    { [ok |-> FALSE, name |-> <<>>], [ok |-> TRUE, name |-> <<"P", "C">>] }

CpuLineKinds == { <<"processor", "\t: 0">>, <<"model name", "\t: cpu">> }

RECURSIVE SeqsUpTo(_, _)
SeqsUpTo(S, n) ==
    IF n = 0 THEN { <<>> }
    ELSE LET shorter == SeqsUpTo(S, n - 1)
         IN shorter \cup { Append(s, x) : s \in shorter, x \in S }

\* fs::read_to_string("/proc/cpuinfo"), already split by lines()
CpuInfos ==
    { [ok |-> FALSE, lines |-> <<>>] }
    \cup { [ok |-> TRUE, lines |-> l] : l \in SeqsUpTo(CpuLineKinds, MaxCpuLines) }

MemLines(n) == [i \in 1..n |-> <<"MemField", ToString(i), ":  1 kB">>]

\* fs::read_to_string("/proc/meminfo"), already split by lines()
MemInfos ==
    { [ok |-> FALSE, lines |-> <<>>] }
    \cup { [ok |-> TRUE, lines |-> MemLines(n)] : n \in 0..MaxMemLines }

\* fs::read_to_string("/etc/hostname")
Hostnames ==
    { [ok |-> FALSE, content |-> <<>>],
      [ok |-> TRUE, content |-> <<>>],
      [ok |-> TRUE, content |-> <<"h", "1", "\n">>],
      [ok |-> TRUE, content |-> <<" ", "h", " ", "\n">>] }

\* Command::new("sysctl").args(..).output() followed by String::from_utf8:
\* spawn = the process could be started, utf8 = stdout is valid UTF-8
SysctlOutputs(values) ==
    { [spawn |-> FALSE, utf8 |-> FALSE, stdout |-> <<>>],
      [spawn |-> TRUE, utf8 |-> FALSE, stdout |-> <<>>],
      [spawn |-> TRUE, utf8 |-> TRUE, stdout |-> <<>>] }
    \cup { [spawn |-> TRUE, utf8 |-> TRUE, stdout |-> v] : v \in values }

NoSysctl == [spawn |-> FALSE, utf8 |-> FALSE, stdout |-> <<>>]

DefaultEnv ==
    [sys_info |-> CHOOSE s \in SysInfos : s.dw_number_of_processors = 1,
     computer_name |-> [ok |-> FALSE, name |-> <<>>],
     cpuinfo |-> [ok |-> FALSE, lines |-> <<>>],
     meminfo |-> [ok |-> FALSE, lines |-> <<>>],
     hostname |-> [ok |-> FALSE, content |-> <<>>],
     ncpu |-> NoSysctl, memsize |-> NoSysctl, brand |-> NoSysctl]

\* the environments explored for a build target: only the interfaces the
\* target's variant touches vary
EnvsFor(os) ==
    CASE os = "windows" ->
           { [DefaultEnv EXCEPT !.sys_info = s, !.computer_name = c]
               : s \in SysInfos, c \in ComputerNames }
      [] os = "linux" ->
           { [DefaultEnv EXCEPT !.cpuinfo = c, !.meminfo = m, !.hostname = h]
               : c \in CpuInfos, m \in MemInfos, h \in Hostnames }
      [] os = "macos" ->
           { [DefaultEnv EXCEPT !.ncpu = n, !.memsize = m, !.brand = b]
               : n \in SysctlOutputs({ <<"8", "\n">> }),
                 m \in SysctlOutputs({ <<"1", "6", "\n">> }),
                 b \in SysctlOutputs({ <<"M", "1", "\n">> }) }
      [] OTHER -> { DefaultEnv }

(* ------------------------------ queries ------------------------------- *)

\* the system interfaces a variant may consult
QueryIds ==
    {"GetSystemInfo", "GetComputerNameW", "/proc/cpuinfo", "/proc/meminfo",
     "/etc/hostname", "hw.ncpu", "hw.memsize", "machdep.cpu.brand_string"}

SysctlOk(o) == o.spawn /\ o.utf8

\* whether query q delivers a value in environment e
Succeeded(q, e) ==
    CASE q = "GetSystemInfo" -> TRUE
      [] q = "GetComputerNameW" -> e.computer_name.ok
      [] q = "/proc/cpuinfo" -> e.cpuinfo.ok
      [] q = "/proc/meminfo" -> e.meminfo.ok
      [] q = "/etc/hostname" -> e.hostname.ok
      [] q = "hw.ncpu" -> SysctlOk(e.ncpu)
      [] q = "hw.memsize" -> SysctlOk(e.memsize)
      [] q = "machdep.cpu.brand_string" -> SysctlOk(e.brand)
      [] OTHER -> FALSE

\* result of one call of get_system_info: the lines printed, the queries
\* issued, in order, and those of them issued before the first println!
Result(l, q, early) == [lines |-> l, queries |-> q, early |-> early]

(* ------------------------- windows variant ---------------------------- *)

\* the computer_name binding of the Json arm
WindowsJsonName(e) ==
    IF e.computer_name.ok THEN e.computer_name.name ELSE <<"Unknown">>

WindowsJson(e) ==
    LET si == e.sys_info
    IN << Line(GSI, "none", <<"{">>),
          KeyLine("target_os", "platform", Quoted(<<"windows">>), TRUE),
          KeyLine("GetSystemInfo", "processors", Num(si.dw_number_of_processors), TRUE),
          KeyLine("GetSystemInfo", "page_size", Num(si.dw_page_size), TRUE),
          KeyLine("GetSystemInfo", "architecture", Num(si.w_processor_architecture), TRUE),
          KeyLine("GetSystemInfo", "allocation_granularity",
                  Num(si.dw_allocation_granularity), TRUE),
          KeyLine("GetComputerNameW", "computer_name", Quoted(WindowsJsonName(e)), FALSE),
          Line(GSI, "none", <<"}">>) >>

WindowsVerboseLines(verbose, si) ==
    IF verbose
    THEN << Line(GSI, "GetSystemInfo",
                 <<"Processor Type: ">> \o Num(si.dw_processor_type)),
            Line(GSI, "GetSystemInfo",
                 <<"Processor Level: ">> \o Num(si.w_processor_level)),
            Line(GSI, "GetSystemInfo",
                 <<"Processor Revision: ">> \o Num(si.w_processor_revision)) >>
    ELSE <<>>

WindowsText(verbose, e) ==
    LET si == e.sys_info
    IN << Line(GSI, "none", <<"=== System Information (via Windows API) ===">>),
          Line(GSI, "GetSystemInfo",
               <<"Number of Processors: ">> \o Num(si.dw_number_of_processors)),
          Line(GSI, "GetSystemInfo",
               <<"Page Size: ">> \o Num(si.dw_page_size) \o <<" bytes">>),
          Line(GSI, "GetSystemInfo",
               <<"Processor Architecture: ">> \o Num(si.w_processor_architecture)) >>
       \o WindowsVerboseLines(verbose, si)
       \o << Line(GSI, "GetSystemInfo",
                  <<"Allocation Granularity: ">> \o Num(si.dw_allocation_granularity)
                  \o <<" bytes">>) >>
       \o (IF e.computer_name.ok
           THEN << Line(GSI, "GetComputerNameW",
                        <<"Computer Name: ">> \o e.computer_name.name) >>
           ELSE <<>>)

WindowsInfo(verbose, format, e) ==
    Result(IF format = "Json" THEN WindowsJson(e) ELSE WindowsText(verbose, e),
           <<"GetSystemInfo", "GetComputerNameW">>,
           IF format = "Json" THEN <<"GetSystemInfo", "GetComputerNameW">>
           ELSE <<"GetSystemInfo">>)

(* -------------------------- linux variant ----------------------------- *)

LinuxJsonHostnameOmitted(e) == <<>>
LinuxJsonHostname(e) ==
    IF e.hostname.ok
    THEN << KeyLine("/etc/hostname", "hostname",
                    Quoted(Trim(e.hostname.content)), FALSE) >>
    ELSE <<>>

LinuxJson(e) ==
    << Line(GSI, "none", <<"{">>),
       KeyLine("target_os", "platform", Quoted(<<"linux">>), TRUE) >>
    \o (IF e.cpuinfo.ok
        THEN << KeyLine("/proc/cpuinfo", "processors",
                        Num(ProcessorCount(e.cpuinfo.lines)), TRUE) >>
        ELSE <<>>)
    \o LinuxJsonHostname(e)
    \o << Line(GSI, "none", <<"}">>) >>

LinesToShowSwapped(verbose) == IF verbose THEN 3 ELSE 10
LinesToShow(verbose) == IF verbose THEN 10 ELSE 3

LinuxMemLines(verbose, e) ==
    IF e.meminfo.ok
    THEN LET shown == Take(e.meminfo.lines, LinesToShow(verbose))
         IN [i \in 1..Len(shown) |-> Line(GSI, "/proc/meminfo", shown[i])]
    ELSE <<>>

LinuxTextHostnameSkipEmpty(e) ==
    IF e.hostname.ok /\ Trim(e.hostname.content) # <<>>
    THEN << Line(GSI, "/etc/hostname",
                 <<"Hostname: ">> \o Trim(e.hostname.content)) >>
    ELSE <<>>
LinuxTextHostname(e) ==
    IF e.hostname.ok
    THEN << Line(GSI, "/etc/hostname",
                 <<"Hostname: ">> \o Trim(e.hostname.content)) >>
    ELSE <<>>

LinuxText(verbose, e) ==
    << Line(GSI, "none", <<"=== System Information (Linux) ===">>) >>
    \o (IF e.cpuinfo.ok
        THEN << Line(GSI, "/proc/cpuinfo",
                     <<"Number of Processors: ">>
                     \o Num(ProcessorCount(e.cpuinfo.lines))) >>
        ELSE <<>>)
    \o LinuxMemLines(verbose, e)
    \o LinuxTextHostname(e)

LinuxInfo(verbose, format, e) ==
    IF format = "Json"
    THEN Result(LinuxJson(e), <<"/proc/cpuinfo", "/etc/hostname">>, <<>>)
    ELSE Result(LinuxText(verbose, e),
                <<"/proc/cpuinfo", "/proc/meminfo", "/etc/hostname">>, <<>>)

(* -------------------------- macos variant ----------------------------- *)

MacosJson(e) ==
    << Line(GSI, "none", <<"{">>),
       KeyLine("target_os", "platform", Quoted(<<"macos">>), TRUE) >>
    \o (IF SysctlOk(e.ncpu)
        THEN << KeyLine("hw.ncpu", "cpus", Trim(e.ncpu.stdout), TRUE) >>
        ELSE <<>>)
    \o (IF SysctlOk(e.memsize)
        THEN << KeyLine("hw.memsize", "memory_bytes", Trim(e.memsize.stdout), FALSE) >>
        ELSE <<>>)
    \o << Line(GSI, "none", <<"}">>) >>

MacosBrandLines(verbose, e) ==
    IF verbose /\ SysctlOk(e.brand)
    THEN << Line(GSI, "machdep.cpu.brand_string",
                 <<"CPU: ">> \o Trim(e.brand.stdout)) >>
    ELSE <<>>

MacosText(verbose, e) ==
    << Line(GSI, "none", <<"=== System Information (macOS) ===">>) >>
    \o (IF SysctlOk(e.ncpu)
        THEN << Line(GSI, "hw.ncpu", <<"Number of CPUs: ">> \o Trim(e.ncpu.stdout)) >>
        ELSE <<>>)
    \o (IF SysctlOk(e.memsize)
        THEN << Line(GSI, "hw.memsize",
                     <<"Memory Size: ">> \o Trim(e.memsize.stdout) \o <<" bytes">>) >>
        ELSE <<>>)
    \o MacosBrandLines(verbose, e)

MacosInfo(verbose, format, e) ==
    IF format = "Json"
    THEN Result(MacosJson(e), <<"hw.ncpu", "hw.memsize">>, <<>>)
    ELSE Result(MacosText(verbose, e),
                <<"hw.ncpu", "hw.memsize">>
                \o (IF verbose THEN <<"machdep.cpu.brand_string">> ELSE <<>>),
                <<>>)

(* ------------------------- fallback variant --------------------------- *)

FallbackInfoByFormat(verbose, format, e) ==
    IF format = "Json"
    THEN Result(<< Line(GSI, "none", <<"{">>),
                   KeyLine("target_os", "platform", Quoted(<<"unsupported">>), FALSE),
                   Line(GSI, "none", <<"}">>) >>, <<>>, <<>>)
    ELSE Result(<< Line(GSI, "target_os", <<"Unsupported platform">>) >>, <<>>, <<>>)
FallbackInfo(verbose, format, e) ==
    Result(<< Line(GSI, "target_os", <<"Unsupported platform">>) >>, <<>>, <<>>)

\* the get_system_info compiled into a binary for target os
GetSystemInfo(os, verbose, format, e) ==
    CASE CfgWindows(os) -> WindowsInfo(verbose, format, e)
      [] CfgLinux(os) -> LinuxInfo(verbose, format, e)
      [] CfgMacos(os) -> MacosInfo(verbose, format, e)
      [] OTHER -> FallbackInfo(verbose, format, e)

(* ------------------------------- main --------------------------------- *)

MainBannerNoBlank(format, os, a) ==
    IF format = "Text"
    THEN << Line("main", "none", <<"System Info Tool - Cross-platform CLI">>),
            Line("main", "none", <<"Built for: ", os, " (", a, ")">>) >>
    ELSE <<>>
MainBanner(format, os, a) ==
    IF format = "Text"
    THEN << Line("main", "none", <<"System Info Tool - Cross-platform CLI">>),
            Line("main", "none", <<"Built for: ", os, " (", a, ")">>),
            Line("main", "none", <<>>) >>
    ELSE <<>>

FooterLines ==
    << Line("main", "none", <<>>),
       Line("main", "none", <<"This tool uses platform-specific system libraries:">>),
       Line("main", "none", <<"- Windows: kernel32.dll (Windows API)">>),
       Line("main", "none", <<"- Linux: /proc filesystem">>),
       Line("main", "none", <<"- macOS: sysctl command">>) >>

MainFooterAnyFormat(format, verbose) ==
    IF verbose THEN FooterLines ELSE <<>>
MainFooter(format, verbose) ==
    IF format = "Text" /\ verbose THEN FooterLines ELSE <<>>

\* everything a run with successfully parsed arguments prints
ProgramOutput(os, a, verbose, format, e) ==
    MainBanner(format, os, a)
    \o GetSystemInfo(os, verbose, format, e).lines
    \o MainFooter(format, verbose)

\* fn main() returns (): the process exit status is success
MainReturn == 0

(* ---------------------------- state machine --------------------------- *)

TargetOS == {"windows", "linux", "macos", "freebsd", "android"}
Archs == {"x86_64", "aarch64"}
FormatArgs == {"absent", "text", "json", "xml"}
NoArgs == [ok |-> FALSE, verbose |-> FALSE, format |-> "Text"]
\* exit status of a Rust process that panicked
PanicCode == 101

Init ==
    /\ target_os \in TargetOS
    /\ arch \in Archs
    /\ argv \in [verbose : BOOLEAN, format : FormatArgs]
    /\ env \in EnvsFor(target_os)
    /\ stdout_ok \in BOOLEAN
    /\ pc = "parse"
    /\ args = NoArgs
    /\ out = <<>>
    /\ queries = <<>>
    /\ calls = <<>>
    /\ exit_code = <<>>

\* let args = Args::parse();  (success)
Parse ==
    /\ pc = "parse"
    /\ ArgsParse(argv).ok
    /\ args' = ArgsParse(argv)
    /\ pc' = "banner"
    /\ UNCHANGED <<target_os, arch, argv, env, stdout_ok, out, queries, calls, exit_code>>

\* let args = Args::parse();  (usage error: clap exits the process)
ParseError ==
    /\ pc = "parse"
    /\ ~ArgsParse(argv).ok
    /\ exit_code' = <<UsageErrorCode>>
    /\ pc' = "exited"
    /\ UNCHANGED <<target_os, arch, argv, env, stdout_ok, args, out, queries, calls>>

\* println! of lines l: all are written, or the first write fails and the
\* process panics
Println(l, next) ==
    IF l # <<>> /\ ~stdout_ok
    THEN /\ out' = out
         /\ exit_code' = <<PanicCode>>
         /\ pc' = "exited"
    ELSE /\ out' = out \o l
         /\ exit_code' = exit_code
         /\ pc' = next

\* if matches!(args.format, OutputFormat::Text) { banner }
Banner ==
    /\ pc = "banner"
    /\ Println(MainBanner(args.format, target_os, arch), "collect")
    /\ UNCHANGED <<target_os, arch, argv, env, stdout_ok, args, queries, calls>>

\* get_system_info(args.verbose, &args.format): every variant prints at
\* least one line; r.early are the queries issued before the first println!
Call(variant, r) ==
    /\ Println(r.lines, "footer")
    /\ queries' = queries \o (IF stdout_ok THEN r.queries ELSE r.early)
    /\ calls' = Append(calls, variant)
    /\ UNCHANGED <<target_os, arch, argv, env, stdout_ok, args>>

CallWindows ==
    /\ pc = "collect"
    /\ CfgWindows(target_os)
    /\ Call("windows", WindowsInfo(args.verbose, args.format, env))

CallLinux ==
    /\ pc = "collect"
    /\ CfgLinux(target_os)
    /\ Call("linux", LinuxInfo(args.verbose, args.format, env))

CallMacos ==
    /\ pc = "collect"
    /\ CfgMacos(target_os)
    /\ Call("macos", MacosInfo(args.verbose, args.format, env))

CallFallback ==
    /\ pc = "collect"
    /\ CfgFallback(target_os)
    /\ Call("fallback", FallbackInfo(args.verbose, args.format, env))

\* if matches!(args.format, OutputFormat::Text) && args.verbose { footer }
Footer ==
    /\ pc = "footer"
    /\ Println(MainFooter(args.format, args.verbose), "return")
    /\ UNCHANGED <<target_os, arch, argv, env, stdout_ok, args, queries, calls>>

\* end of main
Return ==
    /\ pc = "return"
    /\ exit_code' = <<MainReturn>>
    /\ pc' = "exited"
    /\ UNCHANGED <<target_os, arch, argv, env, stdout_ok, args, out, queries, calls>>

Next ==
    \/ Parse
    \/ ParseError
    \/ Banner
    \/ CallWindows
    \/ CallLinux
    \/ CallMacos
    \/ CallFallback
    \/ Footer
    \/ Return

Spec == Init /\ [][Next]_vars

(* ======================= properties of the program ==================== *)

\* main has returned
Done == pc = "exited" /\ exit_code = <<0>>

\* get_system_info has been called and has returned
AfterCollect == pc \in {"footer", "return"} \/ Done

\* the target has a dedicated variant
Supported == target_os \in {"windows", "linux", "macos"}

\* the lines printed by get_system_info
Collected(o) == SelectSeq(o, LAMBDA l : l.by = GSI)

\* lines that carry a fact (not a banner, header, brace or footer)
FactLines(o) == SelectSeq(o, LAMBDA l : l.src # "none")

IsKeyLine(l) == Len(l.text) >= 3 /\ l.text[1] = "  \""
KeyOf(l) == l.text[2]
EndsWithComma(l) == l.text # <<>> /\ l.text[Len(l.text)] = ","

\* s is obtained from t by deleting elements
RECURSIVE IsSubseq(_, _)
IsSubseq(s, t) ==
    IF s = <<>> THEN TRUE
    ELSE IF t = <<>> THEN FALSE
    ELSE IF Head(s) = Head(t) THEN IsSubseq(Tail(s), Tail(t))
    ELSE IsSubseq(s, Tail(t))

\* the output of the same run (same target, arguments' format and
\* environment) with the given verbosity
OutputWith(verbose) == ProgramOutput(target_os, arch, verbose, args.format, env)

\* C1: a fact whose query failed is silently skipped: no printed line or key
\* carries a value for a query that failed, in either format.
C1_FailedQuerySkipped ==
    \A i \in DOMAIN out :
        out[i].src \in QueryIds => Succeeded(out[i].src, env)

\* C2: verbose is monotonic: the lines printed with verbose=false are a
\* subsequence (same lines, same relative order) of the lines printed with
\* verbose=true, for the same target, format and query outcomes.
C2_VerboseMonotonic ==
    Done =>
        IF args.verbose
        THEN IsSubseq(OutputWith(FALSE), out)
        ELSE IsSubseq(out, OutputWith(TRUE))

C2_Witness ==
    /\ Done
    /\ args.verbose
    /\ args.format = "Text"
    /\ target_os = "linux"
    /\ env.meminfo.ok
    /\ Len(env.meminfo.lines) > 10
    /\ env.hostname.ok
    /\ Len(out) > Len(OutputWith(FALSE))

JsonKey ==
    [l \in {"Number of Processors: ", "Page Size: ", "Processor Architecture: ",
            "Allocation Granularity: ", "Computer Name: ", "Hostname: ",
            "Number of CPUs: ", "Memory Size: "} |->
        CASE l = "Number of Processors: " -> "processors"
          [] l = "Page Size: " -> "page_size"
          [] l = "Processor Architecture: " -> "architecture"
          [] l = "Allocation Granularity: " -> "allocation_granularity"
          [] l = "Computer Name: " -> "computer_name"
          [] l = "Hostname: " -> "hostname"
          [] l = "Number of CPUs: " -> "cpus"
          [] l = "Memory Size: " -> "memory_bytes"]

NoDuplicateKeys(json) ==
    \A i, j \in DOMAIN json :
        (IsKeyLine(json[i]) /\ IsKeyLine(json[j]) /\ KeyOf(json[i]) = KeyOf(json[j]))
            => i = j

\* the fact of Text line l is exactly one key of json
HasOneKey(l, json) ==
    /\ l.text[1] \in DOMAIN JsonKey
    /\ Cardinality({ j \in DOMAIN json :
                       IsKeyLine(json[j]) /\ KeyOf(json[j]) = JsonKey[l.text[1]] }) = 1

TextFacts(verbose) ==
    FactLines(GetSystemInfo(target_os, verbose, "Text", env).lines)

\* C4 as stated: every fact printed in Text format (same verbosity, same
\* query outcomes) is exactly one key of the Json output, and no key repeats.
C4_EveryTextFactIsJsonKey ==
    (Done /\ Supported /\ args.format = "Json") =>
        /\ NoDuplicateKeys(Collected(out))
        /\ \A i \in DOMAIN TextFacts(args.verbose) :
               HasOneKey(TextFacts(args.verbose)[i], Collected(out))

\* C4 amended: no key appears twice in the Json output, and every fact that
\* Text format prints at verbose=false, other than the linux /proc/meminfo
\* lines, is exactly one key of the Json output.
C4_NonVerboseFactsAreJsonKeys ==
    (Done /\ Supported /\ args.format = "Json") =>
        /\ NoDuplicateKeys(Collected(out))
        /\ \A i \in DOMAIN TextFacts(FALSE) :
               TextFacts(FALSE)[i].src # "/proc/meminfo"
                   => HasOneKey(TextFacts(FALSE)[i], Collected(out))

C4_Witness ==
    /\ Done
    /\ args.format = "Json"
    /\ target_os = "linux"
    /\ env.cpuinfo.ok /\ env.hostname.ok /\ env.meminfo.ok
    /\ Len(TextFacts(FALSE)) = 5
    /\ Len(Collected(out)) = 5

\* lines of o that are not fact lines
NonFactCount(o) == Len(o) - Len(FactLines(o))

\* C5 as stated: in Text format the number of printed lines is the number of
\* facts plus a number of header lines that is the same whatever the
\* verbosity and whichever queries succeeded.
C5_ConstantHeader ==
    (Done /\ args.format = "Text") =>
        NonFactCount(out) = NonFactCount(OutputWith(~args.verbose))

\* C5 amended: in Text format the number of printed lines is the number of
\* facts plus 4 header lines (3 on a target without a dedicated variant),
\* plus 5 footer lines when verbose; it does not depend on which queries
\* succeeded.
C5_LineCount ==
    (Done /\ args.format = "Text") =>
        Len(out) = Len(FactLines(out))
                   + (IF Supported THEN 4 ELSE 3)
                   + (IF args.verbose THEN 5 ELSE 0)

C5_Witness ==
    /\ Done
    /\ args.format = "Text"
    /\ args.verbose
    /\ target_os = "linux"
    /\ env.cpuinfo.ok /\ ~env.hostname.ok
    /\ Len(FactLines(out)) = 11
    /\ Len(out) = 20

\* C6: on a target other than windows, linux and macos get_system_info
\* prints exactly one line, the fact "Unsupported platform", and issues no
\* query, whatever the verbosity and the format.
C6_FallbackSingleFact ==
    (AfterCollect /\ ~Supported) =>
        /\ Collected(out) = << Line(GSI, "target_os", <<"Unsupported platform">>) >>
        /\ queries = <<>>

C6_Witness ==
    /\ Done
    /\ target_os = "freebsd"
    /\ args.format = "Json"
    /\ args.verbose
    /\ out = << Line(GSI, "target_os", <<"Unsupported platform">>) >>

SomeQueryFact == \E j \in DOMAIN out : out[j].src \in QueryIds

\* C7 as stated: on windows, linux and macos, whenever at least one issued
\* query succeeds, at least one line or key that comes from a query is
\* printed, even when the successful query returns empty content.
C7_NonEmptyOnSuccess ==
    (Done /\ Supported) =>
        ((\E i \in DOMAIN queries : Succeeded(queries[i], env)) => SomeQueryFact)

\* C7 amended: on windows, linux and macos, whenever at least one issued
\* query succeeds, at least one line or key that comes from a query is
\* printed, unless the only successful query is the read of /proc/meminfo
\* and it returned no line.
C7_NonEmptyUnlessEmptyMeminfo ==
    (Done /\ Supported) =>
        ((\E i \in DOMAIN queries :
             /\ Succeeded(queries[i], env)
             /\ (queries[i] = "/proc/meminfo" => env.meminfo.lines # <<>>))
         => SomeQueryFact)

C7_Witness ==
    /\ Done
    /\ target_os = "linux"
    /\ args.format = "Text"
    /\ ~env.cpuinfo.ok /\ ~env.meminfo.ok
    /\ env.hostname.ok /\ env.hostname.content = <<>>
    /\ SomeQueryFact

C9_JsonWellFormed ==
    (Done /\ Supported /\ args.format = "Json") =>
        /\ Len(out) >= 2
        /\ out[1].text = <<"{">>
        /\ out[Len(out)].text = <<"}">>
        /\ \A i \in 2..(Len(out) - 1) :
               /\ IsKeyLine(out[i])
               /\ EndsWithComma(out[i]) <=> (i < Len(out) - 1)

\* C10: in Json format the output does not depend on verbose and has no
\* banner or footer: the run prints the same lines and issues the same
\* queries as the run with the other verbosity, and every printed line comes
\* from get_system_info.
C10_JsonIgnoresVerbose ==
    (Done /\ args.format = "Json") =>
        /\ out = OutputWith(~args.verbose)
        /\ queries = GetSystemInfo(target_os, ~args.verbose, "Json", env).queries
        /\ \A i \in DOMAIN out : out[i].by = GSI

C10_Witness ==
    /\ Done
    /\ args.format = "Json"
    /\ args.verbose
    /\ target_os = "macos"
    /\ SysctlOk(env.ncpu) /\ SysctlOk(env.memsize) /\ SysctlOk(env.brand)
    /\ Len(out) = 5

====
